---- MODULE Spec2Model ----
(***************************************************************************)
(* A model of task_manager.py, the command-line task tracker: the task     *)
(* store (load_tasks, save_tasks over a JSON file) and the six operations  *)
(* add_task, list_tasks, complete_task, delete_task, export_tasks and      *)
(* import_tasks.                                                           *)
(*                                                                         *)
(* Python values are modelled with their type, because the code's          *)
(* behaviour depends on it (None against a string in a comparison, the     *)
(* truth value of "" and []).  A Python string is the sequence of its      *)
(* characters, each a one-character TLA+ string, so that lower(), the      *)
(* substring test, the string comparison of the sort and strptime are      *)
(* computed character by character.                                        *)
(***************************************************************************)
EXTENDS Integers, Sequences, FiniteSets, TLC

VARIABLES
    files,     \* the file system: file name -> content
    clock,     \* the number of times datetime.now() was read so far
    call,      \* the operation called last, with its arguments
    output,    \* the lines that call printed on stdout
    raised,    \* the exception that call let escape, or NoException
    exported   \* history: per file name, the collection export_tasks last wrote there

vars == <<files, clock, call, output, raised, exported>>

----------------------------------------------------------------------------
(* Python values *)

PyNone == [ty |-> "NoneType"]
PyStr(chars) == [ty |-> "str", s |-> chars]
PyBool(b) == [ty |-> "bool", b |-> b]
PyList(items) == [ty |-> "list", items |-> items]

\* bool(v): None, "", [] and False are false
Truthy(v) ==
    CASE v.ty = "NoneType" -> FALSE
      [] v.ty = "str" -> v.s # <<>>
      [] v.ty = "bool" -> v.b
      [] v.ty = "list" -> v.items # <<>>

\* str(v), as an f-string formats a value that is a string or None
Format(v) ==
    CASE v.ty = "NoneType" -> <<"N","o","n","e">>
      [] v.ty = "str" -> v.s

\* dict.get(key, default)
Get(d, key, default) == IF key \in DOMAIN d THEN d[key] ELSE default

\* dict[key] = value
DictSet(d, key, value) ==
    [k \in (DOMAIN d) \cup {key} |-> IF k = key THEN value ELSE d[k]]

----------------------------------------------------------------------------
(* Characters and strings *)

\* The characters the model's strings are made of, in code point order.
Alphabet ==
    <<" ","-",",",".","0","1","2","3","4","5","6","7","8","9",":","A","B","C","D","E","F","G","H","I","J","K","L","M","N","O","P","Q","R","S","T","U","V","W","X","Y","Z","[","]","a","b","c","d","e","f","g","h","i","j","k","l","m","n","o","p","q","r","s","t","u","v","w","x","y","z">>

Ord(c) == CHOOSE i \in 1..Len(Alphabet) : Alphabet[i] = c

UpperCase == <<"A","B","C","D","E","F","G","H","I","J","K","L","M","N","O","P","Q","R","S","T","U","V","W","X","Y","Z">>
LowerCase == <<"a","b","c","d","e","f","g","h","i","j","k","l","m","n","o","p","q","r","s","t","u","v","w","x","y","z">>
Digits == <<"0","1","2","3","4","5","6","7","8","9">>

IsDigit(c) == \E i \in 1..10 : Digits[i] = c
DigitValue(c) == (CHOOSE i \in 1..10 : Digits[i] = c) - 1

LowerChar(c) ==
    IF \E i \in 1..26 : UpperCase[i] = c
    THEN LowerCase[CHOOSE i \in 1..26 : UpperCase[i] = c]
    ELSE c

\* str.lower()
Lower(s) == [i \in 1..Len(s) |-> LowerChar(s[i])]

\* needle in hay, for strings
IsSubstring(needle, hay) ==
    \E i \in 0..(Len(hay) - Len(needle)) :
        SubSeq(hay, i + 1, i + Len(needle)) = needle

\* a < b for strings: lexicographic by code point
RECURSIVE StrLess(_, _)
StrLess(a, b) ==
    IF b = <<>> THEN FALSE
    ELSE IF a = <<>> THEN TRUE
    ELSE IF a[1] = b[1] THEN StrLess(Tail(a), Tail(b))
    ELSE Ord(a[1]) < Ord(b[1])

\* str(n) for an integer n >= 0
RECURSIVE IntStr(_)
IntStr(n) ==
    IF n < 10 THEN <<Digits[n + 1]>>
    ELSE IntStr(n \div 10) \o <<Digits[(n % 10) + 1]>>

\* sep.join(strs)
RECURSIVE Join(_, _)
Join(sep, strs) ==
    IF strs = <<>> THEN <<>>
    ELSE IF Len(strs) = 1 THEN strs[1]
    ELSE strs[1] \o sep \o Join(sep, Tail(strs))

----------------------------------------------------------------------------
(* datetime *)

IsLeap(y) == (y % 4 = 0 /\ y % 100 # 0) \/ y % 400 = 0

DaysInMonth(y, m) ==
    IF m = 2 THEN (IF IsLeap(y) THEN 29 ELSE 28)
    ELSE IF m \in {4, 6, 9, 11} THEN 30 ELSE 31

\* The directive %m of strptime: 1[0-2] | 0[1-9] | [1-9]
MonthToken(t) ==
    \/ Len(t) = 2 /\ t[1] = "1" /\ t[2] \in {"0", "1", "2"}
    \/ Len(t) = 2 /\ t[1] = "0" /\ IsDigit(t[2]) /\ t[2] # "0"
    \/ Len(t) = 1 /\ IsDigit(t[1]) /\ t[1] # "0"

\* The directive %d of strptime: 3[0-1] | [1-2]\d | 0[1-9] | [1-9] | " "[1-9]
DayToken(t) ==
    \/ Len(t) = 2 /\ t[1] = "3" /\ t[2] \in {"0", "1"}
    \/ Len(t) = 2 /\ t[1] \in {"1", "2"} /\ IsDigit(t[2])
    \/ Len(t) = 2 /\ t[1] \in {"0", " "} /\ IsDigit(t[2]) /\ t[2] # "0"
    \/ Len(t) = 1 /\ IsDigit(t[1]) /\ t[1] # "0"

RECURSIVE TokenValue(_)
TokenValue(t) ==
    IF t = <<>> THEN 0
    ELSE IF t[Len(t)] = " " THEN TokenValue(SubSeq(t, 1, Len(t) - 1))
    ELSE 10 * TokenValue(SubSeq(t, 1, Len(t) - 1)) + DigitValue(t[Len(t)])

\* Whether datetime.strptime(s, '%Y-%m-%d') returns a date; it raises
\* ValueError otherwise.  The whole string must match four digits, "-", a
\* month token, "-", a day token, and the date must exist in the calendar.
StrptimeParses(s) ==
    \E mlen \in {1, 2}, dlen \in {1, 2} :
        /\ Len(s) = 6 + mlen + dlen
        /\ \A i \in 1..4 : IsDigit(s[i])
        /\ s[5] = "-"
        /\ s[6 + mlen] = "-"
        /\ MonthToken(SubSeq(s, 6, 5 + mlen))
        /\ DayToken(SubSeq(s, 7 + mlen, Len(s)))
        /\ LET y == TokenValue(SubSeq(s, 1, 4))
               m == TokenValue(SubSeq(s, 6, 5 + mlen))
               d == TokenValue(SubSeq(s, 7 + mlen, Len(s)))
           IN  y >= 1 /\ d <= DaysInMonth(y, m)

\* datetime.now().strftime('%Y-%m-%d %H:%M:%S') at the n-th reading of the clock
Strftime(n) == <<"2","0","2","5","-","0","1","-","0","1"," ","0","0",":","0","0",":">> \o (IF n < 10 THEN <<"0">> ELSE <<>>) \o IntStr(n)

----------------------------------------------------------------------------
(* json *)

\* json.dump of a value: the JSON text, as the tree of its tokens
RECURSIVE DumpValue(_)
DumpValue(v) ==
    CASE v.ty = "NoneType" -> [j |-> "null"]
      [] v.ty = "bool" -> [j |-> IF v.b THEN "true" ELSE "false"]
      [] v.ty = "str" -> [j |-> "string", s |-> v.s]
      [] v.ty = "list" ->
            [j |-> "array",
             items |-> [i \in 1..Len(v.items) |-> DumpValue(v.items[i])]]

\* The order in which a task's keys were inserted: add_task's dict literal,
\* then complete_task's completed_at.  json.dump writes, and json.load reads,
\* the members of an object in this order.
KeyOrder ==
    <<"description", "completed", "priority", "due_date", "category", "tags",
      "created_at", "completed_at">>

DumpObject(d) ==
    LET keys == SelectSeq(KeyOrder, LAMBDA k : k \in DOMAIN d)
    IN  [i \in 1..Len(keys) |-> <<keys[i], DumpValue(d[keys[i]])>>]

\* json.dump(tasks, f, indent=2): an array of objects
JsonDump(tasks) == [i \in 1..Len(tasks) |-> DumpObject(tasks[i])]

RECURSIVE LoadValue(_)
LoadValue(j) ==
    CASE j.j = "null" -> PyNone
      [] j.j = "true" -> PyBool(TRUE)
      [] j.j = "false" -> PyBool(FALSE)
      [] j.j = "string" -> PyStr(j.s)
      [] j.j = "array" ->
            PyList([i \in 1..Len(j.items) |-> LoadValue(j.items[i])])

\* An object becomes a dict; of two members with one key the later wins.
LoadObject(members) ==
    [k \in {members[i][1] : i \in 1..Len(members)} |->
        LET last == CHOOSE i \in 1..Len(members) :
                        /\ members[i][1] = k
                        /\ \A n \in (i + 1)..Len(members) : members[n][1] # k
        IN  LoadValue(members[last][2])]

JsonLoad(doc) == [i \in 1..Len(doc) |-> LoadObject(doc[i])]

----------------------------------------------------------------------------
(* The file system *)

\* The store: tasks.json in the directory of task_manager.py.  Files are
\* named by their path from that directory.
TASKS_FILE == <<"t","a","s","k","s",".","j","s","o","n">>
PRIORITIES == <<PyStr(<<"l","o","w">>), PyStr(<<"m","e","d","i","u","m">>), PyStr(<<"h","i","g","h">>)>>

\* What a file holds: nothing (there is no such file), a JSON document,
\* text that is not JSON, or bytes that are not text in the locale's
\* encoding (UTF-8).
Missing == [kind |-> "missing"]
JsonFile(doc) == [kind |-> "json", doc |-> doc]
TextFile == [kind |-> "text"]
BytesFile == [kind |-> "bytes"]

NoException == [type |-> "none"]

\* with open(filename, 'r') as f: json.load(f)
ReadJson(content) ==
    CASE content.kind = "missing" -> [exc |-> "FileNotFoundError"]
      [] content.kind = "bytes" -> [exc |-> "UnicodeDecodeError"]
      [] content.kind = "text" -> [exc |-> "JSONDecodeError"]
      [] content.kind = "json" -> [exc |-> "none", value |-> JsonLoad(content.doc)]

\* str(e) of the exception ReadJson raised
ExceptionText(exc, filename) ==
    CASE exc = "FileNotFoundError" ->
            <<"[","E","r","r","n","o"," ","2","]"," ","N","o"," ","s","u","c","h"," ","f","i","l","e"," ","o","r"," ","d","i","r","e","c","t","o","r","y",":"," ","'">> \o filename \o <<"'">>
      [] exc = "JSONDecodeError" -> <<"E","x","p","e","c","t","i","n","g"," ","v","a","l","u","e",":"," ","l","i","n","e"," ","1"," ","c","o","l","u","m","n"," ","1"," ","(","c","h","a","r"," ","0",")">>

\* TASKS_FILE is written by save_tasks only, so it never holds bytes that
\* are not text: the UnicodeDecodeError load_tasks would not catch has no
\* case here.
load_tasks(fs) ==
    IF fs[TASKS_FILE].kind = "missing" THEN <<>>
    ELSE LET r == ReadJson(fs[TASKS_FILE])
         IN  CASE r.exc = "none" -> r.value
               [] r.exc \in {"JSONDecodeError", "FileNotFoundError"} -> <<>>

save_tasks(fs, tasks) == [fs EXCEPT ![TASKS_FILE] = JsonFile(JsonDump(tasks))]

----------------------------------------------------------------------------
(* The operations *)

\* The history variable exported: per file, whether export_tasks wrote it,
\* the collection it wrote there last, and whether add_task, complete_task
\* or delete_task has changed the store since.
NeverExported == [written |-> FALSE, tasks |-> <<>>, edited |-> FALSE]

Edited(exp) ==
    [f \in DOMAIN exp |->
        IF exp[f].written THEN [exp[f] EXCEPT !.edited = TRUE] ELSE exp[f]]

Contains(list, v) == \E i \in 1..Len(list) : list[i] = v

\* The task add_task appends
NewTask(description, due_date, priority, category, tags, now) ==
    [description |-> description,
     completed |-> PyBool(FALSE),
     priority |-> priority,
     due_date |-> due_date,
     category |-> category,
     tags |-> IF Truthy(tags) THEN tags ELSE PyList(<<>>),
     created_at |-> PyStr(Strftime(now))]

PriorityValid(priority) == Contains(PRIORITIES, priority)

DueDateValid(due_date) == Truthy(due_date) => StrptimeParses(due_date.s)

add_task(description, due_date, priority, category, tags) ==
    /\ call' = [op |-> "add_task", description |-> description,
                due_date |-> due_date, priority |-> priority,
                category |-> category, tags |-> tags]
    /\ IF ~PriorityValid(priority)
       THEN /\ raised' = [type |-> "ValueError",
                          msg |-> <<"P","r","i","o","r","i","t","y"," ","m","u","s","t"," ","b","e"," ","o","n","e"," ","o","f",":"," ">>
                                  \o Join(<<","," ">>, [i \in 1..3 |-> PRIORITIES[i].s])]
            /\ output' = <<>>
            /\ UNCHANGED <<files, clock, exported>>
       ELSE IF ~DueDateValid(due_date)
       THEN /\ raised' = [type |-> "ValueError",
                          msg |-> <<"D","u","e"," ","d","a","t","e"," ","m","u","s","t"," ","b","e"," ","i","n"," ","Y","Y","Y","Y","-","M","M","-","D","D"," ","f","o","r","m","a","t">>]
            /\ output' = <<>>
            /\ UNCHANGED <<files, clock, exported>>
       ELSE LET tasks == load_tasks(files)
                task == NewTask(description, due_date, priority, category,
                                tags, clock + 1)
            IN  /\ files' = save_tasks(files, Append(tasks, task))
                /\ clock' = clock + 1
                /\ output' = <<<<"A","d","d","e","d"," ","t","a","s","k",":"," ">> \o description.s>>
                /\ raised' = NoException
                /\ exported' = Edited(exported)

\* IdInvalid with the upper bound off by one
IdInvalidOffByOne(task_id, tasks) ==
    LET index == task_id - 1 IN index < 0 \/ index > Len(tasks)

IdInvalid(task_id, tasks) ==
    LET index == task_id - 1 IN index < 0 \/ index >= Len(tasks)

\* Completed stamping created_at instead of completed_at
CompletedRestamps(task, now) ==
    DictSet(DictSet(task, "completed", PyBool(TRUE)),
            "created_at", PyStr(Strftime(now)))

Completed(task, now) ==
    DictSet(DictSet(task, "completed", PyBool(TRUE)),
            "completed_at", PyStr(Strftime(now)))

complete_task(task_id) ==
    LET tasks == load_tasks(files)
    IN  /\ call' = [op |-> "complete_task", task_id |-> task_id]
        /\ raised' = NoException
        /\ exported' = IF IdInvalid(task_id, tasks) THEN exported ELSE Edited(exported)
        /\ IF IdInvalid(task_id, tasks)
           THEN /\ output' = <<<<"I","n","v","a","l","i","d"," ","t","a","s","k"," ","I","D">>>>
                /\ UNCHANGED <<files, clock>>
           ELSE /\ files' = save_tasks(files,
                               [tasks EXCEPT ![task_id] = Completed(@, clock + 1)])
                /\ clock' = clock + 1
                /\ output' = <<<<"C","o","m","p","l","e","t","e","d"," ","t","a","s","k"," ">> \o IntStr(task_id)>>

\* Pop removing the last entry, whatever the index
PopLast(tasks, index) == SubSeq(tasks, 1, Len(tasks) - 1)

\* tasks.pop(index), the list that is left
Pop(tasks, index) ==
    SubSeq(tasks, 1, index) \o SubSeq(tasks, index + 2, Len(tasks))

delete_task(task_id) ==
    LET tasks == load_tasks(files)
    IN  /\ call' = [op |-> "delete_task", task_id |-> task_id]
        /\ raised' = NoException
        /\ UNCHANGED clock
        /\ exported' = IF IdInvalid(task_id, tasks) THEN exported ELSE Edited(exported)
        /\ IF IdInvalid(task_id, tasks)
           THEN /\ output' = <<<<"I","n","v","a","l","i","d"," ","t","a","s","k"," ","I","D">>>>
                /\ UNCHANGED files
           ELSE /\ files' = save_tasks(files, Pop(tasks, task_id - 1))
                /\ output' = <<<<"D","e","l","e","t","e","d"," ","t","a","s","k",":"," ">>
                               \o Format(tasks[task_id]["description"])>>

export_tasks(filename) ==
    LET tasks == load_tasks(files)
    IN  /\ call' = [op |-> "export_tasks", filename |-> filename]
        /\ files' = [files EXCEPT ![filename] = JsonFile(JsonDump(tasks))]
        /\ output' = <<<<"E","x","p","o","r","t","e","d"," ">> \o IntStr(Len(tasks)) \o <<" ","t","a","s","k","s"," ","t","o"," ">>
                       \o filename>>
        /\ raised' = NoException
        /\ exported' = [exported EXCEPT ![filename] =
                            [written |-> TRUE, tasks |-> tasks, edited |-> FALSE]]
        /\ UNCHANGED clock

\* import_tasks appending what it read to the store instead of replacing it
import_tasks_Merging(filename) ==
    LET r == ReadJson(files[filename])
    IN  /\ call' = [op |-> "import_tasks", filename |-> filename]
        /\ UNCHANGED <<clock, exported>>
        /\ IF r.exc = "none"
           THEN /\ files' = save_tasks(files, load_tasks(files) \o r.value)
                /\ output' = <<<<"I","m","p","o","r","t","e","d"," ">> \o IntStr(Len(r.value))
                               \o <<" ","t","a","s","k","s"," ","f","r","o","m"," ">> \o filename>>
                /\ raised' = NoException
           ELSE /\ output' = <<<<"E","r","r","o","r"," ","i","m","p","o","r","t","i","n","g"," ","t","a","s","k","s",":"," ">>>>
                /\ raised' = NoException
                /\ UNCHANGED files

import_tasks(filename) ==
    LET r == ReadJson(files[filename])
    IN  /\ call' = [op |-> "import_tasks", filename |-> filename]
        /\ UNCHANGED <<clock, exported>>
        /\ IF r.exc = "none"
           THEN /\ files' = save_tasks(files, r.value)
                /\ output' = <<<<"I","m","p","o","r","t","e","d"," ">> \o IntStr(Len(r.value))
                               \o <<" ","t","a","s","k","s"," ","f","r","o","m"," ">> \o filename>>
                /\ raised' = NoException
           ELSE IF r.exc \in {"JSONDecodeError", "FileNotFoundError"}
           THEN /\ output' = <<<<"E","r","r","o","r"," ","i","m","p","o","r","t","i","n","g"," ","t","a","s","k","s",":"," ">>
                               \o ExceptionText(r.exc, filename)>>
                /\ raised' = NoException
                /\ UNCHANGED files
           ELSE /\ output' = <<>>
                /\ raised' = [type |-> r.exc]
                /\ UNCHANGED files

----------------------------------------------------------------------------
(* list_tasks *)

\* The filter of list_tasks: whether task t is kept
Visible(t, show_completed, category, tag, search) ==
    /\ show_completed \/ ~Truthy(Get(t, "completed", PyNone))
    /\ ~Truthy(category) \/ Get(t, "category", PyNone) = category
    /\ \/ ~Truthy(tag)
       \/ LET tags == Get(t, "tags", PyNone)
          IN  Contains(IF Truthy(tags) THEN tags.items ELSE <<>>, tag)
    /\ \/ ~Truthy(search)
       \/ IsSubstring(Lower(search.s),
                      Lower(Get(t, "description", PyStr(<<>>)).s))

VisibleTasks(tasks, show_completed, category, tag, search) ==
    SelectSeq(tasks, LAMBDA t : Visible(t, show_completed, category, tag, search))

\* list.index(v)
IndexOf(list, v) == (CHOOSE i \in 1..Len(list) : list[i] = v) - 1

\* The sort key: (PRIORITIES.index(priority), due_date)
SortKey(x) ==
    <<IndexOf(PRIORITIES, Get(x, "priority", PyStr(<<"m","e","d","i","u","m">>))),
      Get(x, "due_date", PyStr(<<"9","9","9","9","-","9","9","-","9","9">>))>>

\* Whether a < b is defined for two keys.  Tuples compare by their first
\* unequal component: the ranks when they differ, the due dates otherwise,
\* and < between None and a string raises TypeError.
KeyComparable(a, b) ==
    \/ a[1] # b[1]
    \/ a[2] = b[2]
    \/ a[2].ty = "str" /\ b[2].ty = "str"

KeyLess(a, b) ==
    IF a[1] # b[1] THEN a[1] < b[1]
    ELSE IF a[2] = b[2] THEN FALSE
    ELSE StrLess(a[2].s, b[2].s)

\* list.sort raises when two of the keys it has to order cannot be compared:
\* it compares, directly, every two elements that end up next to each other.
SortRaises(xs) ==
    \E i, j \in 1..Len(xs) : ~KeyComparable(SortKey(xs[i]), SortKey(xs[j]))

\* x put into the sorted list s behind every element that is not greater
InsertSorted(s, x) ==
    LET after == {i \in 1..Len(s) : KeyLess(SortKey(x), SortKey(s[i]))}
        at == IF after = {} THEN Len(s) + 1
              ELSE CHOOSE i \in after : \A n \in after : i <= n
    IN  SubSeq(s, 1, at - 1) \o <<x>> \o SubSeq(s, at, Len(s))

\* list.sort(key=...): ascending and stable
RECURSIVE Sorted(_)
Sorted(xs) ==
    IF xs = <<>> THEN <<>>
    ELSE InsertSorted(Sorted(SubSeq(xs, 1, Len(xs) - 1)), xs[Len(xs)])

\* any(t.get('category') for t in visible_tasks)
AnyCategory(xs) == \E i \in 1..Len(xs) : Truthy(Get(xs[i], "category", PyNone))

\* The key a task is grouped under
GroupKey(task) == Get(task, "category", PyStr(<<"U","n","c","a","t","e","g","o","r","i","z","e","d">>))

\* tasks_by_category.setdefault(cat, []).append(task): the dict as the
\* sequence of its items <<key, list>>, in insertion order
AddToGroup(groups, task) ==
    LET cat == GroupKey(task)
    IN  IF \E g \in 1..Len(groups) : groups[g][1] = cat
        THEN LET g == CHOOSE g \in 1..Len(groups) : groups[g][1] = cat
             IN  [groups EXCEPT ![g] = <<cat, Append(@[2], task)>>]
        ELSE Append(groups, <<cat, <<task>>>>)

RECURSIVE GroupByCategory(_)
GroupByCategory(xs) ==
    IF xs = <<>> THEN <<>>
    ELSE AddToGroup(GroupByCategory(SubSeq(xs, 1, Len(xs) - 1)), xs[Len(xs)])

\* The check mark U+2713 of a completed task
CheckMark == "*"

\* The line _print_task prints
TaskLine(index, task) ==
    LET status == IF Truthy(Get(task, "completed", PyNone))
                  THEN <<CheckMark>> ELSE <<" ">>
        priority == <<"[">> \o Format(Get(task, "priority", PyStr(<<"m","e","d","i","u","m">>))) \o <<"]">>
        due == Get(task, "due_date", PyNone)
        due_date == IF Truthy(due) THEN <<"D","u","e",":"," ">> \o Format(due) ELSE <<>>
        tags == Get(task, "tags", PyList(<<>>))
        tagtext == IF Truthy(Get(task, "tags", PyNone))
                   THEN <<"T","a","g","s",":"," ">>
                        \o Join(<<","," ">>, [i \in 1..Len(tags.items) |-> tags.items[i].s])
                   ELSE <<>>
    IN  IntStr(index) \o <<"."," ","[">> \o status \o <<"]"," ">> \o priority \o <<" ">>
        \o Format(Get(task, "description", PyNone)) \o <<" ">> \o due_date
        \o <<" ">> \o tagtext

\* for i, task in enumerate(xs, 1): _print_task(i, task)
TaskLines(xs) == [i \in 1..Len(xs) |-> TaskLine(i, xs[i])]

\* print(f"\n{category}:") and the group's tasks: an empty line, the header,
\* the numbered lines
GroupLines(group) ==
    <<<<>>, Format(group[1]) \o <<":">>>> \o TaskLines(group[2])

RECURSIVE AllGroupLines(_)
AllGroupLines(groups) ==
    IF groups = <<>> THEN <<>>
    ELSE GroupLines(groups[1]) \o AllGroupLines(Tail(groups))

\* What list_tasks prints for the sorted visible tasks
Render(sorted) ==
    IF AnyCategory(sorted) THEN AllGroupLines(GroupByCategory(sorted))
    ELSE TaskLines(sorted)

list_tasks(show_completed, category, tag, search) ==
    LET tasks == load_tasks(files)
        visible_tasks == VisibleTasks(tasks, show_completed, category, tag, search)
    IN  /\ call' = [op |-> "list_tasks", show_completed |-> show_completed,
                    category |-> category, tag |-> tag, search |-> search]
        /\ UNCHANGED <<files, clock, exported>>
        /\ IF tasks = <<>>
           THEN output' = <<<<"N","o"," ","t","a","s","k","s"," ","f","o","u","n","d",".">>>> /\ raised' = NoException
           ELSE IF visible_tasks = <<>>
           THEN output' = <<<<"N","o"," ","t","a","s","k","s"," ","t","o"," ","d","i","s","p","l","a","y",".">>>> /\ raised' = NoException
           ELSE IF SortRaises(visible_tasks)
           THEN output' = <<>> /\ raised' = [type |-> "TypeError"]
           ELSE output' = Render(Sorted(visible_tasks)) /\ raised' = NoException

----------------------------------------------------------------------------
(* The inputs *)

\* How many times the clock is read: add_task and complete_task read it once
\* each, and it moves on between two readings.  MaxStoreClock bounds Spec,
\* where exported files multiply the states; MaxClock bounds the others.
MaxClock == 3
MaxStoreClock == 2

BACKUP == <<"b","a","c","k","u","p",".","j","s","o","n">>
NOTES == <<"n","o","t","e","s",".","t","x","t">>
BLOB == <<"b","l","o","b",".","b","i","n">>

\* The files: the store, a file to export to, a text file that is not JSON
\* and a binary file
FileNames == {TASKS_FILE, BACKUP, NOTES, BLOB}
ExportFiles == {TASKS_FILE, BACKUP}

Args(description, due_date, priority, category, tags) ==
    [description |-> PyStr(description), due_date |-> due_date,
     priority |-> PyStr(priority), category |-> category, tags |-> tags]

\* The task ids tried: every position, and ids on both sides of the range
TaskIds == -1..(Len(load_tasks(files)) + 1)

Init ==
    /\ files = [f \in FileNames |->
                    CASE f = NOTES -> TextFile
                      [] f = BLOB -> BytesFile
                      [] OTHER -> Missing]
    /\ clock = 0
    /\ call = [op |-> "none"]
    /\ output = <<>>
    /\ raised = NoException
    /\ exported = [f \in FileNames |-> NeverExported]

Complete(max) == \E task_id \in TaskIds : clock < max /\ complete_task(task_id)

Delete == \E task_id \in TaskIds : delete_task(task_id)

Export == \E filename \in ExportFiles : export_tasks(filename)

Import == \E filename \in FileNames : import_tasks(filename)

----------------------------------------------------------------------------
(* Spec: the six operations, called in any order *)

StoreArgs ==
    {Args(<<"T","a","s","k">>, PyNone, <<"m","e","d","i","u","m">>, PyNone, PyNone),
     Args(<<"T","a","s","k">>, PyNone, <<"u","r","g","e","n","t">>, PyNone, PyNone)}

StoreAdd ==
    \E a \in StoreArgs :
        /\ clock < MaxStoreClock
        /\ add_task(a.description, a.due_date, a.priority, a.category, a.tags)

StoreList ==
    \E show_completed \in BOOLEAN :
        list_tasks(show_completed, PyNone, PyNone, PyNone)

Next ==
    StoreAdd \/ StoreList \/ Complete(MaxStoreClock) \/ Delete \/ Export \/ Import

Spec == Init /\ [][Next]_vars

----------------------------------------------------------------------------
(* SpecTasks: add_task over valid and invalid arguments, with complete_task,
   delete_task and list_tasks *)

TaskArgs ==
    {Args(<<"T","a","s","k">>, PyNone, <<"m","e","d","i","u","m">>, PyNone, PyNone),
     Args(<<"B","u","y"," ","m","i","l","k">>, PyStr(<<"2","0","2","4","-","1","2","-","3","1">>), <<"h","i","g","h">>, PyStr(<<"h","o","m","e">>),
          PyList(<<PyStr(<<"x">>), PyStr(<<"y">>)>>)),
     Args(<<"T","a","s","k">>, PyStr(<<"2","0","2","4","-","2","-","2","9">>), <<"l","o","w">>, PyNone, PyList(<<>>)),
     Args(<<"T","a","s","k">>, PyStr(<<>>), <<"m","e","d","i","u","m">>, PyNone, PyNone),
     Args(<<"T","a","s","k">>, PyNone, <<"i","n","v","a","l","i","d">>, PyNone, PyNone),
     Args(<<"T","a","s","k">>, PyStr(<<"2","0","2","4","-","1","2","-","3","1">>), <<"H","I","G","H">>, PyNone, PyNone),
     Args(<<"T","a","s","k">>, PyStr(<<"i","n","v","a","l","i","d","-","d","a","t","e">>), <<"m","e","d","i","u","m">>, PyNone, PyNone),
     Args(<<"T","a","s","k">>, PyStr(<<"2","0","2","4","-","0","2","-","3","0">>), <<"m","e","d","i","u","m">>, PyNone, PyNone),
     Args(<<"T","a","s","k">>, PyStr(<<"2","0","2","3","-","2","-","2","9">>), <<"m","e","d","i","u","m">>, PyNone, PyNone),
     Args(<<"T","a","s","k">>, PyStr(<<"2","4","-","1","2","-","3","1">>), <<"m","e","d","i","u","m">>, PyNone, PyNone),
     Args(<<"T","a","s","k">>, PyStr(<<"2","0","2","4","-","1","2","-","3","1"," ">>), <<"m","e","d","i","u","m">>, PyNone, PyNone),
     Args(<<"T","a","s","k">>, PyStr(<<"2","0","2","4","-","1","3","-","0","1">>), <<"m","e","d","i","u","m">>, PyNone, PyNone),
     Args(<<"T","a","s","k">>, PyStr(<<"i","n","v","a","l","i","d","-","d","a","t","e">>), <<"i","n","v","a","l","i","d">>, PyNone, PyNone)}

TasksAdd ==
    \E a \in TaskArgs :
        /\ clock < MaxClock
        /\ add_task(a.description, a.due_date, a.priority, a.category, a.tags)

NextTasks == TasksAdd \/ StoreList \/ Complete(MaxClock) \/ Delete

SpecTasks == Init /\ [][NextTasks]_vars

----------------------------------------------------------------------------
(* SpecList: list_tasks over its filters, on collections add_task and
   complete_task build *)

ListArgs ==
    {Args(<<"L","o","w"," ","p","r","i","o","r","i","t","y">>, PyStr(<<"2","0","2","4","-","1","2","-","3","1">>), <<"l","o","w">>, PyNone, PyNone),
     Args(<<"H","i","g","h"," ","p","r","i","o","r","i","t","y">>, PyStr(<<"2","0","2","4","-","0","1","-","0","1">>), <<"h","i","g","h">>, PyNone, PyNone),
     Args(<<"M","e","d","i","u","m"," ","p","r","i","o","r","i","t","y">>, PyNone, <<"m","e","d","i","u","m">>, PyNone, PyNone),
     Args(<<"R","e","p","o","r","t">>, PyStr(<<"2","0","2","4","-","0","1","-","0","1">>), <<"m","e","d","i","u","m">>, PyStr(<<"w","o","r","k">>),
          PyList(<<PyStr(<<"x">>)>>)),
     Args(<<"B","u","y"," ","M","i","l","k">>, PyStr(<<"2","0","2","4","-","1","2","-","3","1">>), <<"m","e","d","i","u","m">>, PyStr(<<"h","o","m","e">>), PyNone),
     Args(<<"C","a","l","l">>, PyNone, <<"h","i","g","h">>, PyNone,
          PyList(<<PyStr(<<"x">>), PyStr(<<"y">>)>>))}

ListAdd ==
    \E a \in ListArgs :
        /\ clock < MaxClock
        /\ add_task(a.description, a.due_date, a.priority, a.category, a.tags)

ListList ==
    \E show_completed \in BOOLEAN,
       category \in {PyNone, PyStr(<<"w","o","r","k">>)},
       tag \in {PyNone, PyStr(<<"x">>)},
       search \in {PyNone, PyStr(<<"P","R","I","O","R">>), PyStr(<<"l">>)} :
        list_tasks(show_completed, category, tag, search)

NextList == ListAdd \/ Complete(MaxClock) \/ ListList

SpecList == Init /\ [][NextList]_vars

----------------------------------------------------------------------------
(* The claims *)

\* The persisted collection
Store == load_tasks(files)

InvalidIdMessage == <<<<"I","n","v","a","l","i","d"," ","t","a","s","k"," ","I","D">>>>

StartsWith(line, prefix) ==
    Len(line) >= Len(prefix) /\ SubSeq(line, 1, Len(prefix)) = prefix

\* C2: complete_task and delete_task, called with a task id below 1 or above
\* the length of the persisted collection, print "Invalid task ID" and leave
\* the persisted collection, and the file that holds it, as they were.
C2_InvalidIdLeavesStore ==
    [][(/\ call'.op \in {"complete_task", "delete_task"}
        /\ (call'.task_id < 1 \/ call'.task_id > Len(load_tasks(files))))
       => (/\ output' = InvalidIdMessage
           /\ raised' = NoException
           /\ files'[TASKS_FILE] = files[TASKS_FILE]
           /\ load_tasks(files') = load_tasks(files))]_vars

\* delete_task was called with an id above the length of a collection that
\* is not empty, and refused it
C2_Witness ==
    /\ call.op = "delete_task"
    /\ Len(Store) >= 1
    /\ call.task_id > Len(Store)
    /\ output = InvalidIdMessage

\* C4: complete_task(p), 1 <= p <= n, keeps the length and the order of the
\* collection, sets completed and a non-empty completed_at on the task at
\* position p, and changes no other task and no other field of that task.
C4_CompleteFrame ==
    [][(/\ call'.op = "complete_task"
        /\ call'.task_id >= 1
        /\ call'.task_id <= Len(load_tasks(files)))
       => LET old == load_tasks(files)
              new == load_tasks(files')
              p == call'.task_id
          IN  /\ Len(new) = Len(old)
              /\ \A i \in 1..Len(old) : i # p => new[i] = old[i]
              /\ DOMAIN new[p] = (DOMAIN old[p]) \cup {"completed_at"}
              /\ new[p]["completed"] = PyBool(TRUE)
              /\ new[p]["completed_at"].ty = "str"
              /\ new[p]["completed_at"].s # <<>>
              /\ \A k \in {"description", "priority", "due_date", "category",
                           "tags", "created_at"} :
                    k \in DOMAIN old[p] /\ new[p][k] = old[p][k]]_vars

\* complete_task completed one task of a collection of two or more
C4_Witness ==
    /\ call.op = "complete_task"
    /\ Len(Store) >= 2
    /\ call.task_id \in 1..Len(Store)
    /\ Store[call.task_id]["completed"] = PyBool(TRUE)
    /\ \E i \in 1..Len(Store) : Store[i]["completed"] = PyBool(FALSE)
    /\ output = <<<<"C","o","m","p","l","e","t","e","d"," ","t","a","s","k"," ">> \o IntStr(call.task_id)>>

\* C5: delete_task(p), 1 <= p <= n, leaves n - 1 tasks: those before p where
\* they were, those behind p one position lower, each unchanged.
C5_DeleteShifts ==
    [][(/\ call'.op = "delete_task"
        /\ call'.task_id >= 1
        /\ call'.task_id <= Len(load_tasks(files)))
       => LET old == load_tasks(files)
              new == load_tasks(files')
              p == call'.task_id
          IN  /\ Len(new) = Len(old) - 1
              /\ \A i \in 1..(p - 1) : new[i] = old[i]
              /\ \A i \in (p + 1)..Len(old) : new[i - 1] = old[i]]_vars

\* delete_task removed a task that had another one behind it and one before it
C5_Witness ==
    /\ call.op = "delete_task"
    /\ call.task_id >= 2
    /\ call.task_id <= Len(Store)
    /\ raised = NoException
    /\ Len(output) = 1 /\ StartsWith(output[1], <<"D","e","l","e","t","e","d"," ","t","a","s","k",":"," ">>)

\* C6, as claimed: after export_tasks(f) wrote the collection C, and whatever
\* add_task, complete_task and delete_task did to the store since,
\* import_tasks(f) leaves the persisted collection equal to C, for every file f.
C6_RoundTripAnyFile ==
    (call.op = "import_tasks" /\ exported[call.filename].written)
        => Store = exported[call.filename].tasks

\* C6, amended: the same, for every file f other than the store's own file.
C6_RoundTrip ==
    (/\ call.op = "import_tasks"
     /\ call.filename # TASKS_FILE
     /\ exported[call.filename].written)
        => (Store = exported[call.filename].tasks /\ raised = NoException)

\* import_tasks brought back an exported collection of at least one task
\* after the store had been changed
C6_Witness ==
    /\ call.op = "import_tasks"
    /\ call.filename = BACKUP
    /\ exported[BACKUP].written
    /\ exported[BACKUP].edited
    /\ Len(exported[BACKUP].tasks) >= 1
    /\ Store = exported[BACKUP].tasks

\* C7: import_tasks(f), when f does not exist or holds no parseable JSON,
\* prints an error message, raises nothing and leaves the store as it was.
C7_ImportFailureReported ==
    [][(call'.op = "import_tasks" /\ files[call'.filename].kind # "json")
       => (/\ raised' = NoException
           /\ Len(output') = 1
           /\ StartsWith(output'[1], <<"E","r","r","o","r"," ","i","m","p","o","r","t","i","n","g"," ","t","a","s","k","s",":"," ">>)
           /\ files'[TASKS_FILE] = files[TASKS_FILE])]_vars

\* C3: add_task with a priority outside low, medium, high, or with a due
\* date that is a string (the empty one included) and not a YYYY-MM-DD date,
\* raises ValueError and leaves the store as it was; with a valid priority
\* and a YYYY-MM-DD due date it appends a task holding that very string.
C3_AddValidates ==
    [][call'.op = "add_task"
       => LET old == load_tasks(files)
              new == load_tasks(files')
              priority_ok == call'.priority.s \in {<<"l","o","w">>, <<"m","e","d","i","u","m">>, <<"h","i","g","h">>}
              date_given == call'.due_date.ty = "str"
              date_ok == date_given /\ StrptimeParses(call'.due_date.s)
          IN  /\ (~priority_ok \/ (date_given /\ ~date_ok))
                    => (raised'.type = "ValueError" /\ files' = files)
              /\ (priority_ok /\ date_ok)
                    => (/\ raised' = NoException
                        /\ Len(new) = Len(old) + 1
                        /\ SubSeq(new, 1, Len(old)) = old
                        /\ new[Len(new)]["due_date"] = call'.due_date)]_vars

----------------------------------------------------------------------------
(* The claims on list_tasks.  They read the printed lines: a task's line
   starts with its number, and what follows the number is the same wherever
   the task is printed. *)

IsTaskLine(line) == line # <<>> /\ IsDigit(line[1])

PrintedTasks(out) == SelectSeq(out, IsTaskLine)

RECURSIVE DropNumber(_)
DropNumber(line) ==
    IF line # <<>> /\ IsDigit(line[1]) THEN DropNumber(Tail(line)) ELSE line

Bodies(lines) == [i \in 1..Len(lines) |-> DropNumber(lines[i])]

TaskBody(t) == DropNumber(TaskLine(1, t))

Perm(n) == {f \in [1..n -> 1..n] : \A i, j \in 1..n : i # j => f[i] # f[j]}

\* a and b hold the same lines, each as often
SameLines(a, b) ==
    /\ Len(a) = Len(b)
    /\ \E f \in Perm(Len(a)) : \A i \in 1..Len(a) : a[i] = b[f[i]]

\* The filter as the claims state it, for the call c
ClaimVisible(t, c) ==
    /\ c.show_completed \/ t["completed"] = PyBool(FALSE)
    /\ c.category = PyNone \/ t["category"] = c.category
    /\ c.tag = PyNone \/ Contains(t["tags"].items, c.tag)
    /\ c.search = PyNone \/ IsSubstring(Lower(c.search.s), Lower(t["description"].s))

ClaimVisibleTasks(tasks, c) == SelectSeq(tasks, LAMBDA t : ClaimVisible(t, c))

HasCategory(t) == t["category"] # PyNone

\* The priority rank the claims state: high first
ClaimRank(line) ==
    IF IsSubstring(<<"[","h","i","g","h","]">>, line) THEN 0
    ELSE IF IsSubstring(<<"[","m","e","d","i","u","m","]">>, line) THEN 1
    ELSE 2

\* C1: when list_tasks has printed a collection none of whose visible tasks
\* has a category, every visible task is printed, those of priority high
\* before those of priority medium, and these before those of priority low.
C1_PriorityOrder ==
    (/\ call.op = "list_tasks"
     /\ raised = NoException
     /\ \A i \in 1..Len(Store) :
            ClaimVisible(Store[i], call) => ~HasCategory(Store[i]))
        => LET lines == PrintedTasks(output)
           IN  /\ Len(lines) = Len(ClaimVisibleTasks(Store, call))
               /\ \A i, j \in 1..Len(lines) :
                      i < j => ClaimRank(lines[i]) <= ClaimRank(lines[j])

\* C8: on a collection that is not empty, list_tasks prints exactly the tasks
\* its filters keep, and never changes the files.
C8_ListFilters ==
    [][(call'.op = "list_tasks" /\ load_tasks(files) # <<>>)
       => LET kept == ClaimVisibleTasks(load_tasks(files), call')
          IN  /\ files' = files
              /\ SameLines(Bodies(PrintedTasks(output')),
                           [i \in 1..Len(kept) |-> TaskBody(kept[i])])]_vars

\* Whether the task at a comes before the one at b: by the due date string,
\* a task without a due date behind those that have one, ties by position
DueBefore(xs, a, b) ==
    LET da == xs[a]["due_date"]
        db == xs[b]["due_date"]
    IN  IF da = db THEN a < b
        ELSE IF da = PyNone THEN FALSE
        ELSE IF db = PyNone THEN TRUE
        ELSE StrLess(da.s, db.s)

ClaimDueOrder(xs) ==
    LET f == CHOOSE f \in Perm(Len(xs)) :
                 \A i, j \in 1..Len(xs) : i < j => DueBefore(xs, f[i], f[j])
    IN  [i \in 1..Len(xs) |-> xs[f[i]]]

\* C9: list_tasks completes, and prints the visible tasks of one priority in
\* ascending order of their due dates, those without a due date last, ties in
\* the order of the collection.
C9_DueDateOrder ==
    (call.op = "list_tasks" /\ ClaimVisibleTasks(Store, call) # <<>>)
        => /\ raised = NoException
           /\ \A p \in 1..3 :
                  LET tag == <<"[">> \o PRIORITIES[p].s \o <<"]">>
                      same == SelectSeq(ClaimVisibleTasks(Store, call),
                                        LAMBDA t : t["priority"] = PRIORITIES[p])
                      expected == ClaimDueOrder(same)
                  IN  Bodies(SelectSeq(PrintedTasks(output),
                                       LAMBDA l : IsSubstring(tag, l)))
                          = [i \in 1..Len(expected) |-> TaskBody(expected[i])]

\* The header the claims state for a task's group
ClaimGroupName(t) ==
    IF HasCategory(t) THEN t["category"].s ELSE <<"U","n","c","a","t","e","g","o","r","i","z","e","d">>

\* The names of xs, each once, in the order they are first met
RECURSIVE FirstMet(_)
FirstMet(names) ==
    IF names = <<>> THEN <<>>
    ELSE LET rest == FirstMet(SubSeq(names, 1, Len(names) - 1))
             n == names[Len(names)]
         IN  IF Contains(rest, n) THEN rest ELSE Append(rest, n)

RECURSIVE ClaimGroups(_, _)
ClaimGroups(names, sorted) ==
    IF names = <<>> THEN <<>>
    ELSE <<names[1] \o <<":">>>>
         \o TaskLines(SelectSeq(sorted, LAMBDA t : ClaimGroupName(t) = names[1]))
         \o ClaimGroups(Tail(names), sorted)

ClaimGrouped(sorted) ==
    ClaimGroups(FirstMet([i \in 1..Len(sorted) |-> ClaimGroupName(sorted[i])]),
                sorted)

\* C10: when a visible task has a category, list_tasks prints the visible
\* tasks in groups, in the order their categories are first met in the sorted
\* tasks: a header, then the group's tasks numbered from 1, the tasks without
\* a category under "Uncategorized".  When none has one, it prints one list
\* numbered from 1.
C10_Grouping ==
    (/\ call.op = "list_tasks"
     /\ raised = NoException
     /\ ClaimVisibleTasks(Store, call) # <<>>)
        => LET sorted == Sorted(ClaimVisibleTasks(Store, call))
           IN  IF \E i \in 1..Len(sorted) : HasCategory(sorted[i])
               THEN SelectSeq(output, LAMBDA l : l # <<>>) = ClaimGrouped(sorted)
               ELSE output = TaskLines(sorted)

====
